---- MODULE Spec2Model ----
(***************************************************************************)
(* Model of the Wazuh rule distribution repository:                        *)
(*   server-scripts/pull_rules.py  WazuhRulesPuller (repository puller)    *)
(*   server-scripts/api_puller.py  WazuhAPIPuller   (package puller)       *)
(*   api-server/models.py          the deployment ledger                   *)
(*   api-server/auth.py            server registration and API keys        *)
(*   api-server/app.py             the endpoints the package puller calls  *)
(*                                                                         *)
(* A live category directory holds *.xml files only in this model: the     *)
(* pullers delete and copy *.xml files and nothing else, and backup and    *)
(* rollback copy whole directories, so other files are never changed.      *)
(***************************************************************************)
EXTENDS Integers, Sequences, FiniteSets, TLC

\* ------------------------------------------------------------------ bounds
MaxRuleFiles == 2
MaxDecoderFiles == 1
MaxVersion == 2
MaxRuns == 2
NumProcs == 2
MaxServers == 2
MaxKeys == 1
MaxDeployments == 2
MaxClock == 2
MaxDays == 1
MaxSuccessValue == 2
TicksPerDay == 2

\* file names of a category, in the order a directory listing yields them
NamesOf(c) == IF c = "rules" THEN 1..MaxRuleFiles ELSE 1..MaxDecoderFiles
Versions == 1..MaxVersion
Procs == 1..NumProcs
Categories == {"rules", "decoders"}

\* ------------------------------------------------------- directory values
NoFiles == [n \in {} |-> 1]
NoDir == [exists |-> FALSE, files |-> NoFiles]
MkDir(f) == [exists |-> TRUE, files |-> f]
Restrict(f, S) == [n \in S |-> f[n]]

\* every directory of category c over the given contents: absent, or a set
\* of named files
DirsOver(c, V) ==
  {NoDir} \cup {MkDir(f) : f \in UNION {[S -> V] : S \in SUBSET NamesOf(c)}}

\* Path.glob("*.xml") of a directory: nothing when the directory is absent
Glob(d) == IF d.exists THEN DOMAIN d.files ELSE {}
\* the file a loop over a listing visits next
First(S) == CHOOSE n \in S : \A m \in S : n <= m

\* what an interrupted recursive copy of d can leave at the destination
PartialCopies(d) ==
  {NoDir} \cup {MkDir(Restrict(d.files, S)) :
                  S \in (SUBSET (DOMAIN d.files)) \ {DOMAIN d.files}}

Tree(r, d) == [rules |-> r, decoders |-> d]
NoBackup == [exists |-> FALSE, rules |-> NoDir, decoders |-> NoDir]

\* ---------------------------------------------------------- ledger rows
ServerIds == 1..MaxServers
Keys == 1..MaxKeys
Actions == {"deploy", "download_package"}
NULL == <<>>

\* int(success) of a Python bool: True is 1, False is 0. The success
\* argument of log_deployment is kept as the integer int() makes of it.
IntOf(b) == IF b THEN 1 ELSE 0

\* the first-contact row with deployment_count left to its column default
NewServerRowDefaultCount(ts) ==
  [first_seen |-> ts, last_seen |-> ts, deployment_count |-> 0,
   last_success |-> NULL, is_active |-> 1]

\* the row "INSERT INTO servers (server_id, first_seen, last_seen,
\* deployment_count) VALUES (?, ?, ?, 1)" creates; is_active defaults to 1
NewServerRow(ts) ==
  [first_seen |-> ts, last_seen |-> ts, deployment_count |-> 1,
   last_success |-> NULL, is_active |-> 1]

\* the update with last_success set whatever the success value
UpdatedServerRowAnyOutcome(row, ts, success) ==
  [row EXCEPT !.last_seen = ts,
              !.deployment_count = @ + 1,
              !.last_success = <<ts>>]

\* "UPDATE servers SET last_seen = ?, deployment_count = deployment_count + 1,
\*  last_success = CASE WHEN ? = 1 THEN ? ELSE last_success END"
UpdatedServerRow(row, ts, success) ==
  [row EXCEPT !.last_seen = ts,
              !.deployment_count = @ + 1,
              !.last_success = IF success = 1 THEN <<ts>> ELSE @]

\* the row of register_server with the two times bound to the other column
\* each
RegisteredServerRowSwapped(first, last) ==
  [first_seen |-> last, last_seen |-> first, deployment_count |-> 0,
   last_success |-> NULL, is_active |-> 1]

\* the row register_server inserts: "INSERT INTO servers (server_id,
\* description, first_seen, last_seen, is_active) VALUES (?, ?, ?, ?, 1)"
\* with two calls of datetime.now(), first for first_seen and last for
\* last_seen; deployment_count defaults to 0
RegisteredServerRow(first, last) ==
  [first_seen |-> first, last_seen |-> last, deployment_count |-> 0,
   last_success |-> NULL, is_active |-> 1]

\* f with key k bound to v
Put(f, k, v) == [x \in DOMAIN f \cup {k} |-> IF x = k THEN v ELSE f[x]]

\* the row "INSERT INTO deployments ..." adds; column success holds
\* int(success)
DeploymentRow(sid, action, success, ts) ==
  [server_id |-> sid, action |-> action, success |-> success,
   timestamp |-> ts]

\* table servers after the UPDATE, the SELECT and the conditional INSERT of
\* log_deployment
UpsertedServers(t, sid, ts, success) ==
  IF sid \in DOMAIN t
    THEN Put(t, sid, UpdatedServerRow(t[sid], ts, success))
    ELSE Put(t, sid, NewServerRow(ts))

\* a table without rows
NoRows == [s \in {} |-> 0]
\* the X-Server-ID header the node's package puller sends
NodeServerId == 1
\* no ledger call has been made on its own yet
NoReply == [op |-> "none", args |-> <<>>, result |-> <<>>]
\* a connection on which no log_deployment call is in progress
IdleConn ==
  [pc |-> "idle", server_id |-> 0, action |-> "", success |-> 0,
   timestamp |-> 0, servers |-> NoRows, deployments |-> <<>>]

VARIABLES
  config,         \* [create_backup, auto_restart]: the loaded configuration
  remote,         \* the bundle the authority serves: a tree of two categories
  live,           \* /var/ossec/etc/rules and /var/ossec/etc/decoders
  records,        \* deployment records written (log file lines, POST /deploy)
  returns,        \* results of the runs that have ended, in order
  started,        \* number of pull_and_deploy invocations so far
  pc,             \* position of each invocation
  kind,           \* "repo" (WazuhRulesPuller) or "api" (WazuhAPIPuller)
  force,          \* the force argument of the invocation
  backup,         \* self.backup_dir of the invocation's puller
  cat,            \* category being deployed or restored
  todo,           \* files the current loop has still to visit
  rule_count,
  decoder_count,
  after,          \* where rollback() returns to
  error,          \* the error text of the record being written
  result,         \* return value of the invocation
  pre,            \* live directories when the invocation started
  mutated,        \* the invocation deleted or wrote a live file
  restarts,       \* outcomes of the restarts the invocation issued
  rollbacks,      \* number of rollback() calls of the invocation
  rb_result,      \* what rollback() returned, "none" before it returns
  run,            \* which invocation (1, 2, ...) the process is executing
  faults,         \* the external calls that failed during the invocation
  dry_run,        \* the --dry-run argument of the invocation
  passed,         \* the steps of the invocation that have returned
  servers,        \* table servers: server_id -> row
  api_keys,       \* table api_keys: key -> row
  deployments,    \* table deployments: rows in insertion order
  now,            \* datetime.now() of the API server
  lock,           \* the connection holding the database's write lock, or 0
  conn,           \* each connection's log_deployment call in progress
  snapshots,      \* /backup: the directory each invocation's backup made
  reply,          \* the last ledger call made on its own and what it returned
  revoked         \* the keys for which revoke_api_key has returned True

gvars == <<config, remote, live, records, returns, started, snapshots>>
pvars == <<pc, kind, force, backup, cat, todo, rule_count, decoder_count,
           after, error, result, pre, mutated, restarts, rollbacks, rb_result,
           run, faults, dry_run, passed>>
tables == <<servers, api_keys, deployments>>
cvars == <<lock, conn>>
lvars == <<tables, now, cvars, reply, revoked>>
vars == <<gvars, pvars, lvars>>

\* --------------------------------------------------------------- inputs
\* The node's directories before the first run hold generation 1 content.
LiveTrees ==
  {Tree(r, d) : r \in DirsOver("rules", {1}), d \in DirsOver("decoders", {1})}
\* The bundle is one generation of the authority's files.
RemoteTrees ==
  UNION {{Tree(r, d) : r \in DirsOver("rules", {g}),
                        d \in DirsOver("decoders", {g})} : g \in Versions}
Configs == [create_backup : BOOLEAN, auto_restart : BOOLEAN]
Kinds == {"repo", "api"}

InitPuller ==
  /\ pc = [p \in Procs |-> "idle"]
  /\ kind = [p \in Procs |-> "repo"]
  /\ force = [p \in Procs |-> FALSE]
  /\ backup = [p \in Procs |-> NoBackup]
  /\ cat = [p \in Procs |-> "rules"]
  /\ todo = [p \in Procs |-> {}]
  /\ rule_count = [p \in Procs |-> 0]
  /\ decoder_count = [p \in Procs |-> 0]
  /\ after = [p \in Procs |-> "none"]
  /\ error = [p \in Procs |-> ""]
  /\ result = [p \in Procs |-> "none"]
  /\ pre = [p \in Procs |-> Tree(NoDir, NoDir)]
  /\ mutated = [p \in Procs |-> FALSE]
  /\ restarts = [p \in Procs |-> <<>>]
  /\ rollbacks = [p \in Procs |-> 0]
  /\ rb_result = [p \in Procs |-> "none"]
  /\ run = [p \in Procs |-> 0]
  /\ faults = [p \in Procs |-> {}]
  /\ dry_run = [p \in Procs |-> FALSE]
  /\ passed = [p \in Procs |-> {}]
  /\ records = <<>>
  /\ returns = <<>>
  /\ started = 0
  /\ snapshots = NoRows

\* the tables as init_db creates them
InitLedger ==
  /\ servers = NoRows
  /\ api_keys = NoRows
  /\ deployments = <<>>
  /\ now = 1
  /\ lock = 0
  /\ conn = [c \in Procs |-> IdleConn]
  /\ reply = NoReply
  /\ revoked = {}

Init ==
  /\ config \in Configs
  /\ remote \in RemoteTrees
  /\ live \in LiveTrees
  /\ InitPuller
  /\ InitLedger

\* ------------------------------------------------------------------ main
\* a pull_and_deploy that goes straight to deploy_files
EntryPointAtDeploy(k, dry) == IF dry THEN "done" ELSE "deploy"

\* main() with the --dry-run test left out
EntryPointDryRunIgnored(k, dry) == IF k = "api" THEN "check" ELSE "backup"

\* where main() goes once it has built the puller: "if args.dry_run: ...
\* return True", else into pull_and_deploy, whose first step is the API
\* check in the package puller and the backup in the repository puller
EntryPoint(k, dry) ==
  IF dry THEN "done" ELSE IF k = "api" THEN "check" ELSE "backup"

\* main() builds a new puller, whose backup_dir is a directory of its own
\* (a path, not yet created), and returns at once under --dry-run or calls
\* pull_and_deploy(force)
Main(p, k, f, dry) ==
  /\ pc[p] \in {"idle", "done"}
  /\ started < MaxRuns
  /\ started' = started + 1
  /\ run' = [run EXCEPT ![p] = started + 1]
  /\ kind' = [kind EXCEPT ![p] = k]
  /\ force' = [force EXCEPT ![p] = f]
  /\ dry_run' = [dry_run EXCEPT ![p] = dry]
  /\ passed' = [passed EXCEPT ![p] = {}]
  /\ pc' = [pc EXCEPT ![p] = EntryPoint(k, dry)]
  /\ backup' = [backup EXCEPT ![p] = NoBackup]
  /\ cat' = [cat EXCEPT ![p] = "rules"]
  /\ todo' = [todo EXCEPT ![p] = {}]
  /\ rule_count' = [rule_count EXCEPT ![p] = 0]
  /\ decoder_count' = [decoder_count EXCEPT ![p] = 0]
  /\ after' = [after EXCEPT ![p] = "none"]
  /\ error' = [error EXCEPT ![p] = ""]
  /\ result' = [result EXCEPT ![p] = "none"]
  /\ pre' = [pre EXCEPT ![p] = live]
  /\ mutated' = [mutated EXCEPT ![p] = FALSE]
  /\ restarts' = [restarts EXCEPT ![p] = <<>>]
  /\ rollbacks' = [rollbacks EXCEPT ![p] = 0]
  /\ rb_result' = [rb_result EXCEPT ![p] = "none"]
  /\ faults' = [faults EXCEPT ![p] = {}]
  /\ UNCHANGED <<lvars, snapshots, config, remote, live, records, returns>>

\* ------------------------------------------------------- pull_and_deploy
\* a new invocation without --dry-run
Start(p, k, f) == Main(p, k, f, FALSE)
\* an invocation with --dry-run
DryRun(p, k, f) == Main(p, k, f, TRUE)

\* an external call (a request, a copy, a git or systemctl command, a write)
\* of the invocation succeeded or failed
Outcome(p, ok, call) ==
  faults' = IF ok THEN faults ELSE [faults EXCEPT ![p] = @ \cup {call}]

\* two trees hold the same file names with the same contents
SameFiles(t, u) == \A c \in Categories : t[c].files = u[c].files
\* the last restart the invocation issued, if any, succeeded
Healthy(p) == restarts[p] = <<>> \/ restarts[p][Len(restarts[p])]

\* pull_and_deploy returns res ("true", "false") or lets an exception out
\* ("raised"); the entry of returns also keeps what the run did to the node:
\* whether it deleted or wrote a live file, whether the live directories
\* hold what they held at its start, whether the consumer is running, and
\* whether a write of its deployment record failed
Return(p, res) ==
  /\ pc' = [pc EXCEPT ![p] = "done"]
  /\ result' = [result EXCEPT ![p] = res]
  /\ returns' = Append(returns,
       [run |-> run[p], result |-> res, changed |-> mutated[p],
        restored |-> SameFiles(live, pre[p]), healthy |-> Healthy(p),
        record_failed |-> "record" \in faults'[p]])

\* an exception reaches the except clause of pull_and_deploy
Raise(p, msg) ==
  /\ error' = [error EXCEPT ![p] = msg]
  /\ IF kind[p] = "repo"
       THEN /\ pc' = [pc EXCEPT ![p] = "rollback"]
            /\ after' = [after EXCEPT ![p] = "log_exception"]
       ELSE /\ pc' = [pc EXCEPT ![p] = "report_exception"]
            /\ after' = after

\* a log_deployment that keeps one deployments row per server and action:
\* the new row takes the place of an older row of the pair
LoggedDeploymentReplacing(sid, action, success) ==
  /\ deployments' =
       Append(SelectSeq(deployments,
                        LAMBDA r : r.server_id # sid \/ r.action # action),
              DeploymentRow(sid, action, success, now))
  /\ servers' = UpsertedServers(servers, sid, now, success)

\* the effect of one models.log_deployment call that runs alone: the
\* deployments row, the servers row updated or created, the commit
LoggedDeployment(sid, action, success) ==
  /\ deployments' = Append(deployments,
                            DeploymentRow(sid, action, success, now))
  /\ servers' = UpsertedServers(servers, sid, now, success)

\* Step 1 of the package puller: GET /rules
GetAvailableFiles(p) ==
  /\ pc[p] = "check"
  /\ \E ok \in BOOLEAN :
       /\ Outcome(p, ok, "api")
       /\ IF ok
            THEN /\ pc' = [pc EXCEPT ![p] = "backup"]
                 /\ UNCHANGED <<result, returns>>
            ELSE Return(p, "false")
  /\ UNCHANGED <<lvars, snapshots, dry_run, passed, config, remote, live, records, started, kind, force, backup,
                 cat, todo, rule_count, decoder_count, after, error, pre,
                 mutated, restarts, rollbacks, rb_result, run>>

\* the outcomes of backup_current on the live tree l: [ok, dir]
BackupOutcomes(l) ==
  LET copied(d) == IF d.exists THEN d ELSE NoDir
  IN  {[ok |-> TRUE,
        dir |-> [exists |-> TRUE, rules |-> copied(l.rules),
                 decoders |-> copied(l.decoders)]]}
      \cup (IF l.rules.exists
              THEN {[ok |-> FALSE,
                     dir |-> [exists |-> TRUE, rules |-> part,
                              decoders |-> NoDir]] :
                      part \in PartialCopies(l.rules)}
              ELSE {})
      \cup (IF l.decoders.exists
              THEN {[ok |-> FALSE,
                     dir |-> [exists |-> TRUE, rules |-> copied(l.rules),
                              decoders |-> part]] :
                      part \in PartialCopies(l.decoders)}
              ELSE {})

\* backup_current with its result dropped: the run goes on to the fetch
\* whether or not the backup was made
BackupCurrentIgnoringFailure(p) ==
  /\ pc[p] = "backup"
  /\ \E b \in (IF config.create_backup
                  THEN BackupOutcomes(live)
                  ELSE {[ok |-> TRUE, dir |-> NoBackup]}) :
       /\ backup' = [backup EXCEPT ![p] = b.dir]
       /\ snapshots' = IF b.dir.exists THEN Put(snapshots, run[p], b.dir)
                                       ELSE snapshots
       /\ Outcome(p, b.ok, "backup")
       /\ passed' = [passed EXCEPT ![p] = @ \cup {"backup_current"}]
       /\ pc' = [pc EXCEPT ![p] = "fetch"]
  /\ UNCHANGED <<lvars, dry_run, config, remote, live, records, returns,
                 started, kind, force, cat, todo, rule_count, decoder_count,
                 after, error, result, pre, mutated, restarts, rollbacks,
                 rb_result, run>>

\* backup_current and the abort test that follows it
BackupCurrent(p) ==
  /\ pc[p] = "backup"
  /\ \E b \in (IF config.create_backup
                  THEN BackupOutcomes(live)
                  ELSE {[ok |-> TRUE, dir |-> NoBackup]}) :
       /\ backup' = [backup EXCEPT ![p] = b.dir]
       /\ snapshots' = IF b.dir.exists THEN Put(snapshots, run[p], b.dir)
                                       ELSE snapshots
       /\ Outcome(p, b.ok, "backup")
       /\ passed' = [passed EXCEPT ![p] = @ \cup {"backup_current"}]
       /\ IF b.ok \/ force[p]
            THEN /\ pc' = [pc EXCEPT ![p] = "fetch"]
                 /\ UNCHANGED <<result, returns>>
            ELSE Return(p, "false")
  /\ UNCHANGED <<lvars, dry_run, config, remote, live, records, started, kind, force,
                 cat, todo, rule_count, decoder_count, after, error, pre,
                 mutated, restarts, rollbacks, rb_result, run>>

\* the fetch with its result dropped: deploy_files runs on whatever the
\* working copy or the extraction directory holds
FetchBundleIgnoringFailure(p) ==
  /\ pc[p] = "fetch"
  /\ \E ok \in BOOLEAN,
        served \in (IF kind[p] = "api" THEN BOOLEAN ELSE {FALSE}) :
       /\ (kind[p] = "api" /\ ok) => served
       /\ Outcome(p, ok, "fetch")
       /\ passed' = IF ok THEN [passed EXCEPT ![p] = @ \cup {"fetch"}] ELSE passed
       /\ IF served
            THEN LoggedDeployment(NodeServerId, "download_package", IntOf(TRUE))
            ELSE UNCHANGED <<servers, deployments>>
       /\ pc' = [pc EXCEPT ![p] = "deploy"]
  /\ UNCHANGED <<api_keys, now, cvars, reply, revoked, snapshots, dry_run, config, remote, live, records,
                 returns, started, kind, force, backup, cat, todo, rule_count,
                 decoder_count, after, error, result, pre, mutated, restarts,
                 rollbacks, rb_result, run>>

\* clone_or_pull_repo, or download_package followed by extract_package.
\* GET /rules/latest, when the API server accepts the credential, logs a
\* "download_package" deployment for the node before it sends the archive;
\* the puller can still fail after that (empty or unreadable archive).
FetchBundle(p) ==
  /\ pc[p] = "fetch"
  /\ \E ok \in BOOLEAN,
        served \in (IF kind[p] = "api" THEN BOOLEAN ELSE {FALSE}) :
       /\ (kind[p] = "api" /\ ok) => served
       /\ Outcome(p, ok, "fetch")
       /\ passed' = IF ok THEN [passed EXCEPT ![p] = @ \cup {"fetch"}] ELSE passed
       /\ IF served
            THEN LoggedDeployment(NodeServerId, "download_package", IntOf(TRUE))
            ELSE UNCHANGED <<servers, deployments>>
       /\ IF ok
            THEN /\ pc' = [pc EXCEPT ![p] = "deploy"]
                 /\ UNCHANGED <<result, returns>>
            ELSE Return(p, "false")
  /\ UNCHANGED <<api_keys, now, cvars, reply, revoked, snapshots, dry_run, config, remote, live, records,
                 started, kind, force, backup, cat, todo, rule_count,
                 decoder_count, after, error, pre, mutated, restarts,
                 rollbacks, rb_result, run>>

\* ----------------------------------------------------------- deploy_files
\* WazuhRulesPuller.deploy_files creates the live directories it misses;
\* WazuhAPIPuller.deploy_files does not.
DeployEnter(p) ==
  /\ pc[p] = "deploy"
  /\ live' = IF kind[p] = "repo"
               THEN [c \in Categories |->
                       IF live[c].exists THEN live[c] ELSE MkDir(NoFiles)]
               ELSE live
  /\ cat' = [cat EXCEPT ![p] = "rules"]
  /\ pc' = [pc EXCEPT ![p] = "category"]
  /\ UNCHANGED <<lvars, snapshots, dry_run, passed, config, remote, records, returns, started, kind, force,
                 backup, todo, rule_count, decoder_count, after, error,
                 result, pre, mutated, restarts, rollbacks, rb_result, run, faults>>

\* the category after c in deploy_files and rollback: rules, then decoders
LastCategory(c) == c = "decoders"

\* "if repo_rules_dir.exists():" and the start of the clearing loop
DeployCategory(p) ==
  /\ pc[p] = "category"
  /\ IF remote[cat[p]].exists
       THEN /\ todo' = [todo EXCEPT ![p] = Glob(live[cat[p]])]
            /\ pc' = [pc EXCEPT ![p] = "clear"]
            /\ UNCHANGED <<cat, passed>>
       ELSE /\ todo' = todo
            /\ IF LastCategory(cat[p])
                 THEN /\ pc' = [pc EXCEPT ![p] = "deployed"]
                      /\ passed' = [passed EXCEPT ![p] = @ \cup {"deploy_files"}]
                      /\ cat' = cat
                 ELSE /\ pc' = pc
                      /\ passed' = passed
                      /\ cat' = [cat EXCEPT ![p] = "decoders"]
  /\ UNCHANGED <<lvars, snapshots, dry_run, config, remote, live, records, returns, started, kind, force,
                 backup, rule_count, decoder_count, after, error, result, pre,
                 mutated, restarts, rollbacks, rb_result, run, faults>>

\* one iteration of "for xml_file in live.glob('*.xml'): xml_file.unlink()",
\* or the end of that loop and the start of the copy loop
DeployUnlink(p) ==
  /\ pc[p] = "clear"
  /\ IF todo[p] = {}
       THEN /\ todo' = [todo EXCEPT ![p] = Glob(remote[cat[p]])]
            /\ pc' = [pc EXCEPT ![p] = "copy"]
            /\ UNCHANGED <<live, mutated, error, after, faults>>
       ELSE \E ok \in BOOLEAN :
              LET n == First(todo[p]) IN
              /\ Outcome(p, ok, "unlink")
              /\ IF ok /\ n \in Glob(live[cat[p]])
                   THEN /\ live' = [live EXCEPT ![cat[p]].files =
                                      Restrict(@, DOMAIN @ \ {n})]
                        /\ todo' = [todo EXCEPT ![p] = @ \ {n}]
                        /\ mutated' = [mutated EXCEPT ![p] = TRUE]
                        /\ UNCHANGED <<pc, error, after>>
                   ELSE /\ Raise(p, "unlink failed")
                        /\ UNCHANGED <<live, todo, mutated>>
  /\ UNCHANGED <<lvars, snapshots, dry_run, passed, config, remote, records, returns, started, kind, force,
                 backup, cat, rule_count, decoder_count, result, pre,
                 restarts, rollbacks, rb_result, run>>

\* shutil.copy2(xml_file, live / xml_file.name): the copy succeeds or fails.
\* api_puller.py never imports shutil at module level, so the name is
\* unbound inside WazuhAPIPuller.deploy_files: the expression raises
\* NameError before any copy is tried.
CopyOutcomes(k) == IF k = "repo" THEN BOOLEAN ELSE {TRUE}
Copy2Succeeds(k, ok) == k = "repo" /\ ok
\* str(e) of the exception a failed shutil.copy2 line raises
CopyError(k) ==
  IF k = "repo" THEN "copy failed" ELSE "name 'shutil' is not defined"
\* the error texts of exceptions raised inside deploy_files
DeployErrors == {"unlink failed", CopyError("repo"), CopyError("api")}

\* one iteration of the copy loop, or its end and the step to the next
\* category
DeployCopy(p) ==
  /\ pc[p] = "copy"
  /\ IF todo[p] = {}
       THEN /\ IF LastCategory(cat[p])
                 THEN /\ pc' = [pc EXCEPT ![p] = "deployed"]
                      /\ passed' = [passed EXCEPT ![p] = @ \cup {"deploy_files"}]
                      /\ cat' = cat
                 ELSE /\ pc' = [pc EXCEPT ![p] = "category"]
                      /\ passed' = passed
                      /\ cat' = [cat EXCEPT ![p] = "decoders"]
            /\ UNCHANGED <<live, todo, mutated, error, after, rule_count,
                           decoder_count, faults>>
       ELSE \E ok \in CopyOutcomes(kind[p]) :
              LET n == First(todo[p]) IN
              /\ Outcome(p, ok, "copy")
              /\ IF Copy2Succeeds(kind[p], ok) /\ live[cat[p]].exists
                THEN /\ live' = [live EXCEPT ![cat[p]].files =
                                   [m \in DOMAIN @ \cup {n} |->
                                      IF m = n THEN remote[cat[p]].files[n]
                                               ELSE @[m]]]
                     /\ todo' = [todo EXCEPT ![p] = @ \ {n}]
                     /\ mutated' = [mutated EXCEPT ![p] = TRUE]
                     /\ IF cat[p] = "rules"
                          THEN /\ rule_count' = [rule_count EXCEPT ![p] = @ + 1]
                               /\ decoder_count' = decoder_count
                          ELSE /\ decoder_count' =
                                    [decoder_count EXCEPT ![p] = @ + 1]
                               /\ rule_count' = rule_count
                     /\ UNCHANGED <<pc, cat, error, after, passed>>
                ELSE /\ Raise(p, CopyError(kind[p]))
                     /\ UNCHANGED <<live, todo, mutated, cat, rule_count,
                                    decoder_count, passed>>
  /\ UNCHANGED <<lvars, snapshots, dry_run, config, remote, records, returns, started, kind, force,
                 backup, result, pre, restarts, rollbacks, rb_result, run>>

\* -------------------------------------------------- restart_wazuh, step 4
SuccessRecord(k) == IF k = "repo" THEN "log_ok" ELSE "report_ok"

\* "if rule_count > 0 or decoder_count > 0: restart_wazuh()" and what
\* follows a failed restart
RestartWazuh(p) ==
  /\ pc[p] = "deployed"
  /\ IF (rule_count[p] = 0 /\ decoder_count[p] = 0) \/ ~config.auto_restart
       THEN /\ pc' = [pc EXCEPT ![p] = SuccessRecord(kind[p])]
            /\ passed' = IF rule_count[p] = 0 /\ decoder_count[p] = 0
                           THEN passed
                           ELSE [passed EXCEPT ![p] = @ \cup {"restart_wazuh"}]
            /\ UNCHANGED <<restarts, after, error, faults>>
       ELSE \E ok \in BOOLEAN :
              /\ restarts' = [restarts EXCEPT ![p] = Append(@, ok)]
              /\ Outcome(p, ok, "restart")
              /\ passed' = IF ok THEN [passed EXCEPT ![p] = @ \cup {"restart_wazuh"}] ELSE passed
              /\ IF ok
                   THEN /\ pc' = [pc EXCEPT ![p] = SuccessRecord(kind[p])]
                        /\ UNCHANGED <<after, error>>
                   ELSE IF kind[p] = "repo"
                     THEN /\ pc' = [pc EXCEPT ![p] = "rollback"]
                          /\ after' = [after EXCEPT ![p] = "return_false"]
                          /\ error' = error
                     ELSE /\ pc' = [pc EXCEPT ![p] = "report_restart_failed"]
                          /\ error' = [error EXCEPT ![p] = "Restart failed"]
                          /\ after' = after
  /\ UNCHANGED <<lvars, snapshots, dry_run, config, remote, live, records, returns, started, kind, force,
                 backup, cat, todo, rule_count, decoder_count, result, pre,
                 mutated, rollbacks, rb_result, run>>

\* --------------------------------------------- WazuhRulesPuller.rollback
\* "if not self.backup_dir.exists(): return False"
Rollback(p) ==
  /\ pc[p] = "rollback"
  /\ rollbacks' = [rollbacks EXCEPT ![p] = @ + 1]
  /\ IF backup[p].exists
       THEN /\ cat' = [cat EXCEPT ![p] = "rules"]
            /\ pc' = [pc EXCEPT ![p] = "rb_remove"]
            /\ rb_result' = [rb_result EXCEPT ![p] = "none"]
       ELSE /\ pc' = [pc EXCEPT ![p] = after[p]]
            /\ rb_result' = [rb_result EXCEPT ![p] = "false"]
            /\ cat' = cat
  /\ UNCHANGED <<lvars, snapshots, dry_run, passed, config, remote, live, records, returns, started, kind, force,
                 backup, todo, rule_count, decoder_count, after, error,
                 result, pre, mutated, restarts, run, faults>>

\* "if backup_rules.exists(): shutil.rmtree(live, ignore_errors=True)"
RollbackRemove(p) ==
  /\ pc[p] = "rb_remove"
  /\ IF backup[p][cat[p]].exists
       THEN /\ live' = [live EXCEPT ![cat[p]] = NoDir]
            /\ pc' = [pc EXCEPT ![p] = "rb_copy"]
            /\ cat' = cat
       ELSE /\ live' = live
            /\ IF LastCategory(cat[p])
                 THEN /\ pc' = [pc EXCEPT ![p] = "rb_restart"]
                      /\ cat' = cat
                 ELSE /\ pc' = pc
                      /\ cat' = [cat EXCEPT ![p] = "decoders"]
  /\ UNCHANGED <<lvars, snapshots, dry_run, passed, config, remote, records, returns, started, kind, force,
                 backup, todo, rule_count, decoder_count, after, error,
                 result, pre, mutated, restarts, rollbacks, rb_result, run, faults>>

\* the restore done by moving the backup's category directory into place
\* (shutil.move) instead of copying it: the backup loses the directory
RollbackCopyMovingBackup(p) ==
  /\ pc[p] = "rb_copy"
  /\ \E ok \in BOOLEAN :
       /\ Outcome(p, ok, "rollback copy")
       /\ IF ok /\ ~live[cat[p]].exists
         THEN /\ live' = [live EXCEPT ![cat[p]] = backup[p][cat[p]]]
              /\ backup' = [backup EXCEPT ![p][cat[p]] = NoDir]
              /\ snapshots' = [snapshots EXCEPT ![run[p]][cat[p]] = NoDir]
              /\ rb_result' = rb_result
              /\ IF LastCategory(cat[p])
                   THEN /\ pc' = [pc EXCEPT ![p] = "rb_restart"]
                        /\ cat' = cat
                   ELSE /\ pc' = [pc EXCEPT ![p] = "rb_remove"]
                        /\ cat' = [cat EXCEPT ![p] = "decoders"]
         ELSE /\ IF live[cat[p]].exists
                   THEN live' = live
                   ELSE \E part \in PartialCopies(backup[p][cat[p]]) :
                          live' = [live EXCEPT ![cat[p]] = part]
              /\ UNCHANGED <<backup, snapshots>>
              /\ rb_result' = [rb_result EXCEPT ![p] = "false"]
              /\ pc' = [pc EXCEPT ![p] = after[p]]
              /\ cat' = cat
  /\ UNCHANGED <<lvars, dry_run, passed, config, remote, records, returns,
                 started, kind, force, todo, rule_count, decoder_count, after,
                 error, result, pre, mutated, restarts, rollbacks, run>>

\* "shutil.copytree(backup_rules, live)": it raises when the destination
\* exists or a copy fails, and rollback then returns False
RollbackCopy(p) ==
  /\ pc[p] = "rb_copy"
  /\ \E ok \in BOOLEAN :
       /\ Outcome(p, ok, "rollback copy")
       /\ IF ok /\ ~live[cat[p]].exists
         THEN /\ live' = [live EXCEPT ![cat[p]] = backup[p][cat[p]]]
              /\ rb_result' = rb_result
              /\ IF LastCategory(cat[p])
                   THEN /\ pc' = [pc EXCEPT ![p] = "rb_restart"]
                        /\ cat' = cat
                   ELSE /\ pc' = [pc EXCEPT ![p] = "rb_remove"]
                        /\ cat' = [cat EXCEPT ![p] = "decoders"]
         ELSE /\ IF live[cat[p]].exists
                   THEN live' = live
                   ELSE \E part \in PartialCopies(backup[p][cat[p]]) :
                          live' = [live EXCEPT ![cat[p]] = part]
              /\ rb_result' = [rb_result EXCEPT ![p] = "false"]
              /\ pc' = [pc EXCEPT ![p] = after[p]]
              /\ cat' = cat
  /\ UNCHANGED <<lvars, snapshots, dry_run, passed, config, remote, records, returns, started, kind, force,
                 backup, todo, rule_count, decoder_count, after, error,
                 result, pre, mutated, restarts, rollbacks, run>>

\* a rollback that starts over when the restart it issued has failed
RollbackRestartRetrying(p) ==
  /\ pc[p] = "rb_restart"
  /\ \E ok \in (IF config.auto_restart THEN BOOLEAN ELSE {TRUE}) :
       /\ IF config.auto_restart
            THEN /\ restarts' = [restarts EXCEPT ![p] = Append(@, ok)]
                 /\ Outcome(p, ok, "rollback restart")
            ELSE UNCHANGED <<restarts, faults>>
       /\ rb_result' = [rb_result EXCEPT ![p] = IF ok THEN "true" ELSE "none"]
       /\ pc' = [pc EXCEPT ![p] = IF ok THEN after[p] ELSE "rollback"]
  /\ UNCHANGED <<lvars, snapshots, dry_run, passed, config, remote, live,
                 records, returns, started, kind, force, backup, cat, todo,
                 rule_count, decoder_count, after, error, result, pre,
                 mutated, rollbacks, run>>

\* "if auto_restart: self.restart_wazuh()" (its result is dropped) and
\* "return True"
RollbackRestart(p) ==
  /\ pc[p] = "rb_restart"
  /\ IF config.auto_restart
       THEN \E ok \in BOOLEAN :
              /\ restarts' = [restarts EXCEPT ![p] = Append(@, ok)]
              /\ Outcome(p, ok, "rollback restart")
       ELSE UNCHANGED <<restarts, faults>>
  /\ rb_result' = [rb_result EXCEPT ![p] = "true"]
  /\ pc' = [pc EXCEPT ![p] = after[p]]
  /\ UNCHANGED <<lvars, snapshots, dry_run, passed, config, remote, live, records, returns, started, kind, force,
                 backup, cat, todo, rule_count, decoder_count, after, error,
                 result, pre, mutated, rollbacks, run>>

\* "self.rollback(); return False" after a failed restart
ReturnFalse(p) ==
  /\ pc[p] = "return_false"
  /\ UNCHANGED <<lvars, snapshots, dry_run, passed, config, remote, live, records, started, kind, force, backup,
                 cat, todo, rule_count, decoder_count, after, error, pre,
                 mutated, restarts, rollbacks, rb_result, run, faults>>
  /\ Return(p, "false")

\* ----------------------------------------------------- deployment records
Record(p, ok, rc, dc, msg) ==
  [run |-> run[p], kind |-> kind[p], success |-> ok, rules |-> rc,
   decoders |-> dc, error |-> msg]

\* WazuhRulesPuller.log_deployment appends a line to the log file or raises.
\* Raised inside the try block (the success record) the exception reaches
\* the except clause; raised inside the except clause it leaves
\* pull_and_deploy.
LogDeployment(p) ==
  /\ pc[p] \in {"log_ok", "log_exception"}
  /\ \E written \in BOOLEAN :
       /\ Outcome(p, written, "record")
       /\ IF written
         THEN /\ records' = Append(records,
                   IF pc[p] = "log_ok"
                     THEN Record(p, TRUE, rule_count[p], decoder_count[p], "")
                     ELSE Record(p, FALSE, 0, 0, error[p]))
              /\ Return(p, IF pc[p] = "log_ok" THEN "true" ELSE "false")
              /\ UNCHANGED <<after, error>>
         ELSE /\ records' = records
              /\ IF pc[p] = "log_ok"
                   THEN /\ Raise(p, "log write failed")
                        /\ UNCHANGED <<result, returns>>
                   ELSE /\ Return(p, "raised")
                        /\ UNCHANGED <<after, error>>
  /\ UNCHANGED <<lvars, snapshots, dry_run, passed, config, remote, live, started, kind, force, backup, cat,
                 todo, rule_count, decoder_count, pre, mutated, restarts,
                 rollbacks, rb_result, run>>

\* WazuhAPIPuller.report_deployment posts the record; it swallows every
\* failure and its result is dropped. POST /deploy, when the API server
\* handles it, logs a "deploy" deployment with the posted success value.
ReportDeployment(p) ==
  /\ pc[p] \in {"report_ok", "report_restart_failed", "report_exception"}
  /\ \E posted \in BOOLEAN :
       /\ Outcome(p, posted, "record")
       /\ records' =
         IF ~posted THEN records
         ELSE Append(records,
                CASE pc[p] = "report_ok" ->
                       Record(p, TRUE, rule_count[p], decoder_count[p], "")
                  [] pc[p] = "report_restart_failed" ->
                       Record(p, FALSE, rule_count[p], decoder_count[p],
                              error[p])
                  [] OTHER -> Record(p, FALSE, 0, 0, error[p]))
       /\ IF posted
            THEN LoggedDeployment(NodeServerId, "deploy",
                                  IntOf(pc[p] = "report_ok"))
            ELSE UNCHANGED <<servers, deployments>>
  /\ Return(p, IF pc[p] = "report_ok" THEN "true" ELSE "false")
  /\ UNCHANGED <<api_keys, now, cvars, reply, revoked, snapshots, dry_run, passed, config, remote, live, started,
                 kind, force, backup, cat, todo, rule_count, decoder_count,
                 after, error, pre, mutated, restarts, rollbacks, rb_result,
                 run>>

\* ====================================================== ledger operations
\* models.log_deployment on one connection with no other writer: insert,
\* update, select, insert when absent, commit
LedgerLogDeployment(sid, action, success) ==
  /\ Len(deployments) < MaxDeployments
  /\ LoggedDeployment(sid, action, IntOf(success))
  /\ UNCHANGED <<api_keys, now, cvars, reply, revoked, gvars, pvars>>

\* register_server returns True: neither INSERT raises IntegrityError
\* (servers.server_id and api_keys.key are UNIQUE)
RegisterServerReturns(sid, key) ==
  sid \notin DOMAIN servers /\ key \notin DOMAIN api_keys

\* the row "INSERT INTO api_keys (key, key_hash, server_id, created_at,
\* active) VALUES (?, ?, ?, ?, 1)" adds; is_admin defaults to 0
NewApiKeyRow(sid) ==
  [server_id |-> sid, is_admin |-> 0, active |-> 1, revoked_at |-> NULL]

\* what a later datetime.now() of one call can return: the time of the
\* call's first reading, or a later time when the clock has moved on
LaterReadings == {t \in now..MaxClock : t <= now + 1}

\* register_server on a connection that commits each statement as it runs:
\* the servers row stays when the INSERT into api_keys raises
RegisteredCommittingEach(sid, key) ==
  IF sid \notin DOMAIN servers
    THEN \E late \in LaterReadings :
           /\ servers' = Put(servers, sid, RegisteredServerRow(now, late))
           /\ api_keys' = IF key \notin DOMAIN api_keys
                            THEN Put(api_keys, key, NewApiKeyRow(sid))
                            ELSE api_keys
           /\ now' = late
    ELSE UNCHANGED <<servers, api_keys, now>>

\* register_server with "INSERT OR REPLACE INTO api_keys": the row of a key
\* that exists is replaced by a new active row
RegisteredReplacingKey(sid, key) ==
  IF sid \notin DOMAIN servers
    THEN \E late \in LaterReadings :
           /\ servers' = Put(servers, sid, RegisteredServerRow(now, late))
           /\ api_keys' = Put(api_keys, key, NewApiKeyRow(sid))
           /\ now' = late
    ELSE UNCHANGED <<servers, api_keys, now>>

\* the tables and the clock after register_server: both inserts commit
\* together; an IntegrityError of either leaves the connection to close
\* without a commit
Registered(sid, key) ==
  IF RegisterServerReturns(sid, key)
    THEN \E late \in LaterReadings :
           /\ servers' = Put(servers, sid, RegisteredServerRow(now, late))
           /\ api_keys' = Put(api_keys, key, NewApiKeyRow(sid))
           /\ now' = late
    ELSE UNCHANGED <<servers, api_keys, now>>

\* auth.register_server
RegisterServer(sid, key) ==
  /\ Registered(sid, key)
  /\ UNCHANGED <<deployments, cvars, reply, revoked, gvars, pvars>>

\* time passes on the API server
Tick ==
  /\ now < MaxClock
  /\ now' = now + 1
  /\ UNCHANGED <<tables, cvars, reply, revoked, gvars, pvars>>

\* models.get_deployment_stats(days): the deployments rows with "timestamp
\* >= cutoff", counted in all and per server_id. SUM over no rows is NULL.
\* success_rate, "total_row[1] / total_row[0] * 100" or 0, is kept as the
\* pair of a numerator and a denominator.
\* The clock counts ticks, TicksPerDay of them to a calendar day.
\* "DATE(timestamp)"
DateOf(ts) == ts \div TicksPerDay
\* "cutoff_date = (datetime.now() - timedelta(days=days)).isoformat()"
CutoffDate(days) == now - days * TicksPerDay

\* the window with "timestamp > ?" for its WHERE clause
StatsWindowAfterCutoff(days) ==
  {i \in DOMAIN deployments : deployments[i].timestamp > CutoffDate(days)}

\* "WHERE timestamp >= ?" with cutoff_date
StatsWindow(days) ==
  {i \in DOMAIN deployments : deployments[i].timestamp >= CutoffDate(days)}
SumOver(S, W) == IF W = {} THEN NULL ELSE <<Cardinality(S)>>
GetDeploymentStats(days) ==
  LET W == StatsWindow(days)
      ok == {i \in W : deployments[i].success = 1}
      ko == {i \in W : deployments[i].success = 0}
      of(sid) == {i \in W : deployments[i].server_id = sid}
      on(day) == {i \in W : DateOf(deployments[i].timestamp) = day}
  IN  [total_deployments |-> Cardinality(W),
       successful |-> SumOver(ok, W),
       failed |-> SumOver(ko, W),
       success_rate |-> IF Cardinality(W) > 0
                          THEN <<Cardinality(ok) * 100, Cardinality(W)>>
                          ELSE <<0, 1>>,
       by_server |-> [sid \in {deployments[i].server_id : i \in W} |->
                        [deployments |-> Cardinality(of(sid)),
                         successful |-> Cardinality(of(sid) \cap ok)]],
       daily |-> [day \in {DateOf(deployments[i].timestamp) : i \in W} |->
                    [deployments |-> Cardinality(on(day)),
                     successful |-> Cardinality(on(day) \cap ok)]],
       timeframe_days |-> days]

\* ---------------------------------------- ledger calls and their returns
\* the values a caller of POST /deploy can make int(success) take: 0, 1 and
\* larger integers (deployment_request.get("success") is whatever the JSON
\* body holds)
SuccessValues == 0..MaxSuccessValue
Days == 0..MaxDays

\* models.log_deployment(server_id, action, success=...) called on its own;
\* it returns the new row's deployment_id
LogDeploymentCall(sid, action, success) ==
  /\ Len(deployments) < MaxDeployments
  /\ LoggedDeployment(sid, action, success)
  /\ reply' = [op |-> "log_deployment", args |-> <<sid, action, success>>,
               result |-> <<Len(deployments) + 1>>]
  /\ UNCHANGED <<api_keys, now, cvars, revoked, gvars, pvars>>

\* auth.register_server and its return value
RegisterServerCall(sid, key) ==
  /\ Registered(sid, key)
  /\ reply' = [op |-> "register_server", args |-> <<sid, key>>,
               result |-> <<RegisterServerReturns(sid, key)>>]
  /\ UNCHANGED <<deployments, cvars, revoked, gvars, pvars>>

\* auth.revoke_api_key: "UPDATE api_keys SET active = 0, revoked_at = ?
\* WHERE key = ?" and "return affected > 0"
RevokeApiKey(key) ==
  /\ api_keys' = IF key \in DOMAIN api_keys
                   THEN [api_keys EXCEPT ![key].active = 0,
                                         ![key].revoked_at = <<now>>]
                   ELSE api_keys
  /\ reply' = [op |-> "revoke_api_key", args |-> <<key>>,
               result |-> <<key \in DOMAIN api_keys>>]
  /\ revoked' = IF key \in DOMAIN api_keys THEN revoked \cup {key}
                                            ELSE revoked
  /\ UNCHANGED <<servers, deployments, now, cvars, gvars, pvars>>

\* models.get_deployment_stats(days): three SELECTs, no write
GetDeploymentStatsCall(days) ==
  /\ reply' = [op |-> "get_deployment_stats", args |-> <<days>>,
               result |-> GetDeploymentStats(days)]
  /\ UNCHANGED <<tables, now, cvars, revoked, gvars, pvars>>

\* the SELECT of list_registered_servers (GET /admin/servers) and the
\* dictionary built from its rows
ListRegisteredServers ==
  /\ reply' = [op |-> "list_registered_servers", args |-> <<>>,
               result |-> [servers |-> servers,
                           total |-> Cardinality(DOMAIN servers),
                           active |-> Cardinality(
                             {sid \in DOMAIN servers :
                                servers[sid].is_active # 0})]]
  /\ UNCHANGED <<tables, now, cvars, revoked, gvars, pvars>>

\* ------------------------------- log_deployment, statement by statement
\* Each call runs on a connection of its own (sqlite3.connect). The
\* sqlite3 module opens a transaction before the first INSERT; the
\* transaction's writes are visible to the connection alone until the
\* commit, and the database admits one writing transaction at a time.

\* "deployment_id = ...; timestamp = datetime.now().isoformat();
\*  conn = sqlite3.connect(...)"
ConnCall(c, sid, action, success) ==
  /\ conn[c].pc = "idle"
  /\ conn' = [conn EXCEPT ![c] =
       [pc |-> "insert_deployment", server_id |-> sid, action |-> action,
        success |-> IntOf(success), timestamp |-> now, servers |-> NoRows,
        deployments |-> <<>>]]
  /\ UNCHANGED <<tables, now, lock, reply, revoked, gvars, pvars>>

\* "INSERT INTO deployments ...": the first write takes the write lock.
\* While another connection holds it the statement waits; when the timeout
\* of sqlite3.connect (5 seconds unless given) runs out first, the statement
\* raises OperationalError("database is locked") and log_deployment, which
\* catches nothing, fails.
ConnInsertDeployment(c) ==
  /\ conn[c].pc = "insert_deployment"
  /\ IF lock = 0
       THEN /\ lock' = c
            /\ conn' = [conn EXCEPT
                 ![c].pc = "update_server",
                 ![c].servers = servers,
                 ![c].deployments =
                    Append(deployments,
                           DeploymentRow(conn[c].server_id, conn[c].action,
                                         conn[c].success, conn[c].timestamp))]
       ELSE /\ lock' = lock
            /\ conn' = [conn EXCEPT ![c].pc = "failed"]
  /\ UNCHANGED <<tables, now, reply, revoked, gvars, pvars>>

\* "UPDATE servers SET ... WHERE server_id = ?": no row, no change
ConnUpdateServer(c) ==
  /\ conn[c].pc = "update_server"
  /\ LET sid == conn[c].server_id
         t == conn[c].servers
     IN conn' = [conn EXCEPT
          ![c].pc = "select_server",
          ![c].servers =
             IF sid \in DOMAIN t
               THEN Put(t, sid, UpdatedServerRow(t[sid], conn[c].timestamp,
                                                 conn[c].success))
               ELSE t]
  /\ UNCHANGED <<tables, now, lock, reply, revoked, gvars, pvars>>

\* "SELECT 1 FROM servers WHERE server_id = ?" and "if not
\* cursor.fetchone():"
ConnSelectServer(c) ==
  /\ conn[c].pc = "select_server"
  /\ conn' = [conn EXCEPT ![c].pc =
       IF conn[c].server_id \in DOMAIN conn[c].servers
         THEN "commit" ELSE "insert_server"]
  /\ UNCHANGED <<tables, now, lock, reply, revoked, gvars, pvars>>

\* "INSERT INTO servers (server_id, first_seen, last_seen,
\* deployment_count) VALUES (?, ?, ?, 1)"; server_id is UNIQUE, and a
\* second row for it raises IntegrityError, the transaction's writes lost
ConnInsertServer(c) ==
  /\ conn[c].pc = "insert_server"
  /\ LET sid == conn[c].server_id
         t == conn[c].servers
     IN IF sid \in DOMAIN t
          THEN /\ conn' = [conn EXCEPT ![c].pc = "failed"]
               /\ lock' = 0
          ELSE /\ conn' = [conn EXCEPT
                    ![c].pc = "commit",
                    ![c].servers = Put(t, sid, NewServerRow(conn[c].timestamp))]
               /\ lock' = lock
  /\ UNCHANGED <<tables, now, reply, revoked, gvars, pvars>>

\* "conn.commit(); conn.close(); return deployment_id"
ConnCommit(c) ==
  /\ conn[c].pc = "commit"
  /\ servers' = conn[c].servers
  /\ deployments' = conn[c].deployments
  /\ lock' = 0
  /\ conn' = [conn EXCEPT ![c].pc = "done"]
  /\ UNCHANGED <<api_keys, now, reply, revoked, gvars, pvars>>

\* ------------------------------------------------------- specifications
Step(p) ==
  \/ GetAvailableFiles(p)
  \/ BackupCurrent(p)
  \/ FetchBundle(p)
  \/ DeployEnter(p)
  \/ DeployCategory(p)
  \/ DeployUnlink(p)
  \/ DeployCopy(p)
  \/ RestartWazuh(p)
  \/ Rollback(p)
  \/ RollbackRemove(p)
  \/ RollbackCopy(p)
  \/ RollbackRestart(p)
  \/ ReturnFalse(p)
  \/ LogDeployment(p)
  \/ ReportDeployment(p)

\* the first invocation on the node
StartFirst ==
  \E k \in Kinds, f \in BOOLEAN : started = 0 /\ Start(1, k, f)

\* a further invocation of the node's puller, made after the one before it
\* has ended
StartAgain ==
  \E f \in BOOLEAN : started > 0 /\ Start(1, kind[1], f)

\* an invocation without --force, made with no regard to the others: the
\* pullers take no lock
StartAny ==
  \E p \in Procs, k \in Kinds :
    /\ \A q \in Procs : run[q] > 0 => kind[q] = k
    /\ Start(p, k, FALSE)

\* Spec: one invocation of either puller, from every input
Next ==
  \/ StartFirst
  \/ \E p \in Procs : Step(p)

Spec == Init /\ [][Next]_vars

\* SpecFair: Spec with every external call returning: a step of a run in
\* progress is taken in the end (pull_and_deploy is sequential code, its
\* loops run over directory listings, its systemctl call has a timeout)
SpecFair == Spec /\ WF_vars(\E p \in Procs : Step(p))

DefaultConfig == [create_backup |-> TRUE, auto_restart |-> TRUE]

\* SpecTwice: invocations in succession, under the default configuration, on
\* an installed node (both live directories exist) against a bundle of the
\* newest generation that holds both category directories
InitTwice ==
  /\ Init
  /\ config = DefaultConfig
  /\ \A c \in Categories : live[c].exists /\ remote[c].exists
  /\ \A c \in Categories : \A n \in Glob(remote[c]) :
        remote[c].files[n] = MaxVersion

NextTwice ==
  \/ StartFirst
  \/ StartAgain
  \/ \E p \in Procs : Step(p)

SpecTwice == InitTwice /\ [][NextTwice]_vars

\* SpecConc: invocations that may overlap, under the default configuration,
\* on a node that holds one rule file against a bundle that holds a newer
\* generation of that file and no decoders directory
InitConc ==
  /\ Init
  /\ config = DefaultConfig
  /\ live = Tree(MkDir([n \in {1} |-> 1]), MkDir(NoFiles))
  /\ remote = Tree(MkDir([n \in {1} |-> MaxVersion]), NoDir)

NextConc ==
  \/ StartAny
  \/ \E p \in Procs : Step(p)

SpecConc == InitConc /\ [][NextConc]_vars

\* SpecLedger: the ledger's operations in any order, one at a time
InitLedgerOnly ==
  /\ config = DefaultConfig
  /\ remote = Tree(NoDir, NoDir)
  /\ live = Tree(NoDir, NoDir)
  /\ InitPuller
  /\ InitLedger

NextLedger ==
  \/ \E sid \in ServerIds, a \in Actions, ok \in BOOLEAN :
       LedgerLogDeployment(sid, a, ok)
  \/ \E sid \in ServerIds, key \in Keys : RegisterServer(sid, key)
  \/ Tick

SpecLedger == InitLedgerOnly /\ [][NextLedger]_vars

\* SpecMain: one invocation of main(), with or without --dry-run
NextMain ==
  \/ StartFirst
  \/ \E k \in Kinds, f \in BOOLEAN : started = 0 /\ DryRun(1, k, f)
  \/ \E p \in Procs : Step(p)

SpecMain == Init /\ [][NextMain]_vars

\* SpecLedgerConc: one log_deployment call per connection, the calls
\* interleaved statement by statement
Conns == Procs

NextLedgerConc ==
  \/ \E c \in Conns, sid \in ServerIds, a \in Actions, ok \in BOOLEAN :
       ConnCall(c, sid, a, ok)
  \/ \E c \in Conns :
       \/ ConnInsertDeployment(c)
       \/ ConnUpdateServer(c)
       \/ ConnSelectServer(c)
       \/ ConnInsertServer(c)
       \/ ConnCommit(c)
  \/ Tick

SpecLedgerConc == InitLedgerOnly /\ [][NextLedgerConc]_vars

\* SpecLedgerOps: every operation on the ledger, called one at a time, each
\* call's return value kept
NextLedgerOps ==
  \/ \E sid \in ServerIds, a \in Actions, v \in SuccessValues :
       LogDeploymentCall(sid, a, v)
  \/ \E sid \in ServerIds, key \in Keys : RegisterServerCall(sid, key)
  \/ \E key \in Keys : RevokeApiKey(key)
  \/ \E days \in Days : GetDeploymentStatsCall(days)
  \/ ListRegisteredServers
  \/ Tick

SpecLedgerOps == InitLedgerOnly /\ [][NextLedgerOps]_vars

\* ------------------------------------------------ the API's endpoints
\* verify_api_key with one SELECT for both kinds of caller: the admin
\* argument is not looked at
VerifyApiKeyOneQuery(key, admin) ==
  /\ key \in DOMAIN api_keys
  /\ api_keys[key].active = 1

\* auth.verify_api_key: "SELECT 1 FROM api_keys WHERE key = ? AND active = 1"
\* and, with admin=True, "AND is_admin = 1"; True when a row is found
VerifyApiKey(key, admin) ==
  /\ key \in DOMAIN api_keys
  /\ api_keys[key].active = 1
  /\ admin => api_keys[key].is_admin = 1

\* auth.verify_api_key called on its own: one SELECT, no write
VerifyApiKeyCall(key, admin) ==
  /\ reply' = [op |-> "verify_api_key", args |-> <<key, admin>>,
               result |-> <<VerifyApiKey(key, admin)>>]
  /\ UNCHANGED <<tables, now, cvars, revoked, gvars, pvars>>

\* the key of the administrator. No statement of the repository inserts a
\* row with is_admin = 1: the row is put into api_keys by hand.
AdminKey == 0
AdminKeyRow ==
  [server_id |-> NULL, is_admin |-> 1, active |-> 1, revoked_at |-> NULL]
\* the bearer keys a request can carry
BearerKeys == Keys \cup {AdminKey}
\* the format parameter of GET /rules/latest
Formats == {"zip", "rar"}

\* "raise HTTPException(status_code=..., detail=...)": the response carries
\* the status and the detail, the handler goes no further
HttpException(endpoint, key, code, detail) ==
  /\ reply' = [op |-> endpoint, args |-> <<key>>,
               result |-> [status_code |-> code, detail |-> detail]]
  /\ UNCHANGED <<tables, now, cvars, revoked, gvars, pvars>>

\* the handler returns: the response carries status 200 and the body
Respond(endpoint, key, body) ==
  reply' = [op |-> endpoint, args |-> <<key>>,
            result |-> [status_code |-> 200, body |-> body]]

\* GET /rules/latest: the key check, the package, the "download_package"
\* record with success left to its default True, the file
GetLatestRulesPackage(key, sid, format) ==
  IF ~VerifyApiKey(key, FALSE)
    THEN HttpException("/rules/latest", key, 403, "Invalid API key")
  ELSE IF format \notin {"zip", "tar.gz"}
    THEN HttpException("/rules/latest", key, 400, "Unsupported format")
  ELSE /\ Len(deployments) < MaxDeployments
       /\ LoggedDeployment(sid, "download_package", IntOf(TRUE))
       /\ Respond("/rules/latest", key, [package |-> format])
       /\ UNCHANGED <<api_keys, now, cvars, revoked, gvars, pvars>>

\* POST /deploy: the key check, then the "deploy" record with the success
\* value of the request body; the response names the new record
DeployRules(key, sid, success) ==
  IF ~VerifyApiKey(key, FALSE)
    THEN HttpException("/deploy", key, 403, "Invalid API key")
    ELSE /\ Len(deployments) < MaxDeployments
         /\ LoggedDeployment(sid, "deploy", success)
         /\ Respond("/deploy", key,
                    [deployment_id |-> Len(deployments) + 1,
                     status |-> "logged"])
         /\ UNCHANGED <<api_keys, now, cvars, revoked, gvars, pvars>>

\* GET /admin/stats: the admin key check, then get_deployment_stats(days)
GetDeploymentStatistics(key, days) ==
  IF ~VerifyApiKey(key, TRUE)
    THEN HttpException("/admin/stats", key, 403, "Admin access required")
    ELSE /\ Respond("/admin/stats", key,
                    [stats |-> GetDeploymentStats(days),
                     timeframe_days |-> days])
         /\ UNCHANGED <<tables, now, cvars, revoked, gvars, pvars>>

\* GET /admin/servers: the admin key check, then the SELECT over servers
\* and the dictionary built from its rows
AdminServers(key) ==
  IF ~VerifyApiKey(key, TRUE)
    THEN HttpException("/admin/servers", key, 403, "Admin access required")
    ELSE /\ Respond("/admin/servers", key,
                    [servers |-> servers,
                     total |-> Cardinality(DOMAIN servers),
                     active |-> Cardinality({sid \in DOMAIN servers :
                                               servers[sid].is_active # 0})])
         /\ UNCHANGED <<tables, now, cvars, revoked, gvars, pvars>>

\* SpecApi: the requests the API server handles and the calls of auth.py,
\* one at a time, on a database with or without the administrator's key
InitApi ==
  /\ config = DefaultConfig
  /\ remote = Tree(NoDir, NoDir)
  /\ live = Tree(NoDir, NoDir)
  /\ InitPuller
  /\ servers = NoRows
  /\ api_keys \in {NoRows, [k \in {AdminKey} |-> AdminKeyRow]}
  /\ deployments = <<>>
  /\ now = 1
  /\ lock = 0
  /\ conn = [c \in Procs |-> IdleConn]
  /\ reply = NoReply
  /\ revoked = {}

NextApi ==
  \/ \E key \in BearerKeys, sid \in ServerIds, format \in Formats :
       GetLatestRulesPackage(key, sid, format)
  \/ \E key \in BearerKeys, sid \in ServerIds, v \in SuccessValues :
       DeployRules(key, sid, v)
  \/ \E key \in BearerKeys, days \in Days : GetDeploymentStatistics(key, days)
  \/ \E key \in BearerKeys : AdminServers(key)
  \/ \E key \in BearerKeys, admin \in BOOLEAN : VerifyApiKeyCall(key, admin)
  \/ \E sid \in ServerIds, key \in Keys : RegisterServerCall(sid, key)
  \/ \E key \in BearerKeys : RevokeApiKey(key)
  \/ Tick

SpecApi == InitApi /\ [][NextApi]_vars

\* =============================================================== properties
Running(p) == pc[p] \notin {"idle", "done"}
Ended(p) == pc[p] = "done"
RecordsOf(p) == {i \in DOMAIN records : records[i].run = run[p]}
\* deploy_files of the invocation returned its counts
DeployFilesReturned(p) ==
  /\ faults[p] \cap {"api", "fetch", "unlink", "copy"} = {}
  /\ "backup" \in faults[p] => force[p]
  /\ error[p] \notin DeployErrors
  /\ pc[p] \notin {"idle", "check", "backup", "fetch", "deploy", "category",
                   "clear", "copy"}

\* C1: in the repository puller, a run whose deploy_files completed and
\* whose restart then failed (every other external call succeeding, the
\* restart made by rollback aside) returns with both live directories
\* holding the files and contents they held when the run started.
C1_RollbackConvergence ==
  \A p \in Procs :
    (/\ Ended(p) /\ kind[p] = "repo"
     /\ "restart" \in faults[p]
     /\ faults[p] \subseteq {"restart", "rollback restart"})
    => SameFiles(live, pre[p])

\* C2: in both pullers, a run in which deploy_files failed after it had
\* deleted or written a live file (every other external call succeeding)
\* returns with both live directories as they were when the run started.
C2_AtomicSwapUnderFailure ==
  \A p \in Procs :
    (/\ Ended(p) /\ mutated[p]
     /\ error[p] \in DeployErrors
     /\ faults[p] \subseteq {"unlink", "copy"})
    => SameFiles(live, pre[p])

\* C3: while a run is in progress each live category directory holds either
\* the complete file set it held when the run started or the complete file
\* set of the bundle's category.
C3_CategoryAtomicity ==
  \A p \in Procs :
    Running(p) =>
      \A c \in Categories :
        \/ live[c].files = pre[p][c].files
        \/ remote[c].exists /\ live[c].files = remote[c].files

\* C4: the second of two successive runs against an unchanged bundle, the
\* first having returned success and no external call of the second
\* failing, returns success with rule count 0 and decoder count 0 in its
\* record, and deletes or writes no live file.
C4_Idempotence ==
  \A p \in Procs :
    (/\ Ended(p) /\ run[p] = 2 /\ faults[p] = {}
     /\ Len(returns) = 2 /\ returns[1].result = "true")
    => /\ result[p] = "true"
       /\ ~mutated[p]
       /\ \A i \in RecordsOf(p) :
            records[i].rules = 0 /\ records[i].decoders = 0

\* C5: two invocations of pull_and_deploy on one node never overlap.
C5_MutualExclusion ==
  \A p, q \in Procs : (p # q /\ Running(p)) => ~Running(q)

\* the rule files of the bundle that the live rules directory lacked when
\* the run started
AddedRules(p) ==
  IF remote.rules.exists THEN Glob(remote.rules) \ Glob(pre[p].rules) ELSE {}

\* C6: a run of the package puller whose bundle holds a rule file absent from
\* the live rules directory, no external call failing, returns success, the
\* live rules directory holds that file with the bundle's content, and the
\* run's record has success = true and a rule count that counts the file.
C6_PackageAddScenario ==
  \A p \in Procs :
    (/\ Ended(p) /\ kind[p] = "api" /\ faults[p] = {}
     /\ AddedRules(p) # {})
    => /\ result[p] = "true"
       /\ \A n \in AddedRules(p) :
            /\ n \in Glob(live.rules)
            /\ live.rules.files[n] = remote.rules.files[n]
       /\ \E i \in RecordsOf(p) :
            records[i].success /\ records[i].rules >= 1

\* C7: in both pullers, a run that deleted or wrote a live file and does not
\* return success has called rollback before it returns.
C7_RollbackAttempted ==
  \A p \in Procs :
    (Ended(p) /\ mutated[p] /\ result[p] # "true") => rollbacks[p] >= 1

\* C8: a run that has returned, its record write not failing, has written
\* exactly one deployment record, and the record of a run that did not
\* succeed carries a non-empty error text.
C8_OneRecordPerRun ==
  \A p \in Procs :
    (Ended(p) /\ "record" \notin faults[p])
    => /\ Cardinality(RecordsOf(p)) = 1
       /\ \A i \in RecordsOf(p) : ~records[i].success => records[i].error # ""

\* C9: a run whose deploy_files and restart succeeded and whose record write
\* then failed (nothing else failing) returns success, runs no rollback and
\* leaves the bundle's content in the live directories.
C9_RecordFailureKeepsOutcome ==
  \A p \in Procs :
    (/\ Ended(p) /\ DeployFilesReturned(p)
     /\ faults[p] = {"record"})
    => /\ result[p] = "true"
       /\ rollbacks[p] = 0
       /\ \A c \in Categories :
            remote[c].exists => live[c].files = remote[c].files

\* C10: every row of the servers table has deployment_count equal to the
\* number of rows of the deployments table with its server_id.
DeploymentsOf(sid) ==
  {i \in DOMAIN deployments : deployments[i].server_id = sid}

C10_LedgerCount ==
  \A sid \in DOMAIN servers :
    servers[sid].deployment_count = Cardinality(DeploymentsOf(sid))

\* a registered server and a server created on first contact, both with
\* deployments logged
C10_Witness ==
  \E s1, s2 \in DOMAIN servers :
    /\ s1 # s2
    /\ \E k \in DOMAIN api_keys : api_keys[k].server_id = s1
    /\ \A k \in DOMAIN api_keys : api_keys[k].server_id # s2
    /\ servers[s1].deployment_count = 1
    /\ servers[s2].deployment_count = 1

\* the log_deployment call made on connection c has returned or raised
ConnEnded(c) == conn[c].pc \in {"done", "failed"}

\* C11: when every connection has made its log_deployment call for one
\* server_id that had no servers row, the calls interleaved statement by
\* statement, and all calls have ended, then none has failed and the
\* servers table holds the row of that id with deployment_count equal to
\* the number of calls (2 for two connections).
C11_ConcurrentUpsert ==
  \A sid \in ServerIds :
    (\A c \in Conns : ConnEnded(c) /\ conn[c].server_id = sid)
    => /\ \A c \in Conns : conn[c].pc = "done"
       /\ sid \in DOMAIN servers
       /\ servers[sid].deployment_count = NumProcs

\* C12: a run whose backup_current failed and whose force argument is false
\* has returned failure at that point: it never reaches the fetch, it has
\* deleted or written no live file, the live directories are as they were
\* at its start, and it has issued no restart.
C12_SafeAbortOnBackupFailure ==
  \A p \in Procs :
    ("backup" \in faults[p] /\ ~force[p])
    => /\ Ended(p) /\ result[p] = "false"
       /\ faults[p] \subseteq {"backup"}
       /\ ~mutated[p] /\ live = pre[p]
       /\ restarts[p] = <<>>

\* a run of the package puller on a node with live rule files, against a
\* bundle with other content, that stopped at the failed backup
C12_Witness ==
  \E p \in Procs :
    /\ Ended(p) /\ kind[p] = "api" /\ ~force[p]
    /\ "backup" \in faults[p]
    /\ Glob(live.rules) # {}
    /\ ~SameFiles(remote, live)

\* C13: a run whose fetch step failed (the git commands of the repository
\* puller; GET /rules, GET /rules/latest or the extraction in the package
\* puller) has returned failure at that point, the live directories are as
\* they were at its start, and it has issued no restart.
C13_TransportFailureLeavesLive ==
  \A p \in Procs :
    (faults[p] \cap {"api", "fetch"} # {})
    => /\ Ended(p) /\ result[p] = "false"
       /\ ~mutated[p] /\ live = pre[p]
       /\ restarts[p] = <<>>

\* a run on a node with live rule files, against a bundle with other
\* content, that stopped at the failed fetch after its backup was made
C13_Witness ==
  \E p \in Procs :
    /\ Ended(p) /\ "fetch" \in faults[p]
    /\ backup[p].exists
    /\ Glob(live.rules) # {}
    /\ ~SameFiles(remote, live)

\* C14: a run in which no external call fails issues a restart only if the
\* bundle's mapping from file name to content differs from the mapping the
\* live directories held when the run started.
C14_RestartOnlyOnChange ==
  \A p \in Procs :
    (restarts[p] # <<>> /\ faults[p] = {}) => ~SameFiles(remote, pre[p])

\* the three terminal outcomes of a run that has returned, from what it did
\* to the node: it changed nothing; it did not succeed and left the old
\* content in place with the consumer running; it did not succeed and left
\* other content or a consumer that did not come up
OutcomeOf(r) ==
  CASE ~r.changed -> "nothing changed"
    [] r.changed /\ r.result # "true" /\ r.restored /\ r.healthy ->
         "rolled back"
    [] r.changed /\ r.result # "true" /\ ~(r.restored /\ r.healthy) ->
         "failed, node possibly degraded"
    [] OTHER -> "deployed"

\* what a run leaves for the operator: its result and its deployment records
ObservableOf(r) ==
  [result |-> r.result,
   records |-> {[success |-> records[i].success, rules |-> records[i].rules,
                 decoders |-> records[i].decoders, error |-> records[i].error] :
                  i \in {j \in DOMAIN records : records[j].run = r.run}}]

ThreeOutcomes ==
  {"nothing changed", "rolled back", "failed, node possibly degraded"}

\* C15: two runs that ended in different ones of the three outcomes (changed
\* nothing, rolled back with the consumer running, failed with the node
\* possibly degraded), no write of a record having failed in either, differ
\* in their result or in their records.
C15_OutcomesDistinguishable ==
  \A i, j \in DOMAIN returns :
    (/\ ~returns[i].record_failed /\ ~returns[j].record_failed
     /\ OutcomeOf(returns[i]) \in ThreeOutcomes
     /\ OutcomeOf(returns[j]) \in ThreeOutcomes
     /\ OutcomeOf(returns[i]) # OutcomeOf(returns[j]))
    => ObservableOf(returns[i]) # ObservableOf(returns[j])

\* the runs of the node so far were runs of the package puller, all have
\* returned, and each has posted its deployment record
PackageRunsRecorded ==
  /\ started > 0 /\ Len(returns) = started
  /\ \A p \in Procs : run[p] > 0 => kind[p] = "api"
  /\ \A n \in 1..started : \E i \in DOMAIN records : records[i].run = n

\* C16: after N runs of the package puller for the node's server id, each
\* run having posted its record, the servers row of that id has
\* deployment_count N, and get_deployment_stats over a window that holds
\* all deployments reports successful and failed counts that add up to N.
C16_LedgerArithmeticFromNode ==
  PackageRunsRecorded =>
    LET stats == GetDeploymentStats(now) IN
    /\ NodeServerId \in DOMAIN servers
    /\ servers[NodeServerId].deployment_count = started
    /\ stats.successful # NULL /\ stats.failed # NULL
    /\ stats.successful[1] + stats.failed[1] = started

\* C17: an invocation of main with --dry-run has returned at once: it made
\* no backup directory, fetched nothing, deleted or wrote no live file,
\* issued no restart and wrote no deployment record, on the node or in the
\* ledger.
C17_DryRunChangesNothing ==
  \A p \in Procs :
    dry_run[p]
    => /\ pc[p] = "done" /\ result[p] = "none"
       /\ backup[p] = NoBackup
       /\ faults[p] = {} /\ deployments = <<>>
       /\ ~mutated[p] /\ live = pre[p]
       /\ restarts[p] = <<>>
       /\ records = <<>>

\* a dry run on a node with live rule files, against a bundle with other
\* content, under a configuration that asks for backup and restart
C17_Witness ==
  \E p \in Procs :
    /\ dry_run[p] /\ run[p] = 1
    /\ config = DefaultConfig
    /\ Glob(live.rules) # {}
    /\ ~SameFiles(remote, live)

\* C18: when rollback, called after a failed restart, has restored the live
\* directories to what they held at the start of the run and the restart
\* it then issued failed too (no other call failing), rollback returns
\* failure.
C18_RollbackRestartFailureReported ==
  \A p \in Procs :
    (/\ rb_result[p] # "none"
     /\ faults[p] = {"restart", "rollback restart"}
     /\ mutated[p] /\ SameFiles(live, pre[p]))
    => rb_result[p] = "false"

\* C19: after a run that returned success, each category's live mapping
\* from *.xml file name to content equals the bundle's mapping for that
\* category, a category for which the bundle holds no file included.
C19_EndStateEqualsBundle ==
  \A p \in Procs :
    (Ended(p) /\ result[p] = "true")
    => \A c \in Categories : live[c].files = remote[c].files

\* C20: a log_deployment call with success false leaves last_success of the
\* server's row as it was (NULL when the call creates the row), sets
\* last_seen to the call's timestamp and adds one to deployment_count (1
\* when the call creates the row).
C20_LastSuccessOnlyOnSuccess ==
  [][\A sid \in ServerIds :
       (/\ Len(deployments') = Len(deployments) + 1
        /\ deployments'[Len(deployments')].server_id = sid
        /\ deployments'[Len(deployments')].success = 0)
       => /\ sid \in DOMAIN servers'
          /\ servers'[sid].last_success =
               (IF sid \in DOMAIN servers THEN servers[sid].last_success
                                          ELSE NULL)
          /\ servers'[sid].last_seen = deployments'[Len(deployments')].timestamp
          /\ servers'[sid].deployment_count =
               (IF sid \in DOMAIN servers
                  THEN servers[sid].deployment_count ELSE 0) + 1]_vars

\* a server whose deployment succeeded and whose later deployment failed:
\* last_success is the time of the first, last_seen the time of the second
C20_Witness ==
  \E sid \in DOMAIN servers :
    /\ Len(deployments) = 2
    /\ deployments[1].server_id = sid /\ deployments[1].success = 1
    /\ deployments[2].server_id = sid /\ deployments[2].success = 0
    /\ deployments[1].timestamp < deployments[2].timestamp
    /\ servers[sid].last_success = <<deployments[1].timestamp>>
    /\ servers[sid].last_seen = deployments[2].timestamp
    /\ servers[sid].deployment_count = 2

\* the step is a ledger call op that returned: reply becomes a reply of op
\* with other arguments or another result than the reply before
Returned(op) ==
  /\ reply'.op = op
  /\ \/ reply.op # op
     \/ reply.args # reply'.args
     \/ reply.result # reply'.result

\* C21: no operation of the ledger (log_deployment, get_deployment_stats,
\* the server listing, register_server, revoke_api_key) changes or removes
\* a row the deployments table holds; a log_deployment call that returns
\* has added exactly one row, the row of its arguments, after the rows
\* there were; a get_deployment_stats call changes no table.
C21_AppendOnlyLog ==
  [][/\ \A i \in DOMAIN deployments :
          i \in DOMAIN deployments' /\ deployments'[i] = deployments[i]
     /\ Returned("log_deployment")
          => /\ Len(deployments') = Len(deployments) + 1
             /\ deployments'[Len(deployments')] =
                  DeploymentRow(reply'.args[1], reply'.args[2],
                                reply'.args[3], now)
     /\ Len(deployments') # Len(deployments) => Returned("log_deployment")
     /\ Returned("get_deployment_stats")
          => <<servers, api_keys, deployments>>' =
             <<servers, api_keys, deployments>>]_vars

\* the table holds two rows of one server and action, logged at different
\* times, a key of the server has been revoked and the statistics were
\* read last
C21_Witness ==
  /\ Len(deployments) = 2
  /\ deployments[1].server_id = deployments[2].server_id
  /\ deployments[1].action = deployments[2].action
  /\ deployments[1].timestamp < deployments[2].timestamp
  /\ \E k \in DOMAIN api_keys :
       api_keys[k].active = 0 /\ api_keys[k].server_id = deployments[1].server_id
  /\ reply.op = "get_deployment_stats"
  /\ reply.result.total_deployments = 2

\* the sum of the "deployments" counts of a breakdown (per server, per day)
RECURSIVE SumOfCounts(_)
SumOfCounts(f) ==
  IF DOMAIN f = {} THEN 0
  ELSE LET k == CHOOSE x \in DOMAIN f : TRUE
       IN  f[k].deployments + SumOfCounts([x \in DOMAIN f \ {k} |-> f[x]])

\* C22: what get_deployment_stats returns for a window that holds at least
\* one row satisfies successful + failed = total_deployments, and the
\* per-server counts and the per-day counts each add up to
\* total_deployments.
C22_StatsConsistent ==
  (reply.op = "get_deployment_stats" /\ reply.result.total_deployments > 0)
  => LET r == reply.result IN
     /\ r.successful # NULL /\ r.failed # NULL
     /\ r.successful[1] + r.failed[1] = r.total_deployments
     /\ SumOfCounts(r.by_server) = r.total_deployments
     /\ SumOfCounts(r.daily) = r.total_deployments

\* the deployments rows with a timestamp at or after the time now less the
\* given number of days
AtOrAfterCutoff(days) ==
  {i \in DOMAIN deployments :
     deployments[i].timestamp >= now - days * TicksPerDay}
\* the calendar days the clock can show
CalendarDays == {t \div TicksPerDay : t \in 1..MaxClock}
\* breakdown f has an entry for key k exactly when rows S is not empty, and
\* the entry counts the rows of S
CountsExactly(f, k, S) ==
  IF S = {} THEN k \notin DOMAIN f
  ELSE k \in DOMAIN f /\ f[k].deployments = Cardinality(S)

\* C23: get_deployment_stats(days) counts exactly the deployments rows with
\* a timestamp at or after now less days: in the total, in each server's
\* entry of the per-server breakdown and in each day's entry of the per-day
\* breakdown; a server or a day with no such row has no entry.
C23_StatsWindow ==
  [][Returned("get_deployment_stats")
     => LET r == reply'.result
            In == AtOrAfterCutoff(reply'.args[1])
        IN /\ r.total_deployments = Cardinality(In)
           /\ \A sid \in ServerIds :
                CountsExactly(r.by_server, sid,
                              {i \in In : deployments[i].server_id = sid})
           /\ \A day \in CalendarDays :
                CountsExactly(r.daily, day,
                              {i \in In :
                                 deployments[i].timestamp \div TicksPerDay = day})
    ]_vars

\* the statistics just read count the second of two rows, logged at the
\* cutoff, and leave out the first, logged before it
C23_Witness ==
  /\ reply.op = "get_deployment_stats"
  /\ reply.result = GetDeploymentStats(reply.args[1])
  /\ Len(deployments) = 2
  /\ deployments[1].timestamp < now - reply.args[1] * TicksPerDay
  /\ deployments[2].timestamp = now - reply.args[1] * TicksPerDay
  /\ reply.result.total_deployments = 1
  /\ DOMAIN reply.result.by_server = {deployments[2].server_id}
  /\ DOMAIN reply.result.daily = {deployments[2].timestamp \div TicksPerDay}

\* C24: a backup directory that backup_current has written stays on disk
\* with the files it holds: no step of the run that made it and no step of
\* a later run removes it or changes a file of it, and the run that made it
\* reads that directory when it rolls back.
C24_BackupsRetained ==
  [][/\ \A r \in DOMAIN snapshots :
          r \in DOMAIN snapshots' /\ snapshots'[r] = snapshots[r]
     /\ \A p \in Procs :
          (run'[p] = run[p] /\ backup[p].exists)
          => backup'[p] = backup[p] /\ snapshots'[run[p]] = backup[p]]_vars

\* a second run has rolled back and returned; the backup of the first run
\* and the backup of the second, which differs from it, are both on disk
C24_Witness ==
  /\ DOMAIN snapshots = {1, 2}
  /\ snapshots[1] # snapshots[2]
  /\ Glob(snapshots[1].rules) # {}
  /\ \E p \in Procs :
       Ended(p) /\ run[p] = 2 /\ rb_result[p] = "true" /\ mutated[p]

\* the servers rows log_deployment created on first contact: rows of ids
\* register_server has not registered
FirstContactRows ==
  {sid \in DOMAIN servers :
     \A k \in DOMAIN api_keys : api_keys[k].server_id # sid}

\* C25: after register_server and log_deployment calls made one at a time
\* under a clock that does not go back, every servers row has last_seen at
\* or after first_seen, and every row log_deployment created on first
\* contact is active.
C25_NodeTimestamps ==
  /\ \A sid \in DOMAIN servers :
       servers[sid].last_seen >= servers[sid].first_seen
  /\ \A sid \in FirstContactRows : servers[sid].is_active = 1

\* a row created on first contact by a deployment, and a row of
\* register_server whose two clock readings differ
C25_Witness ==
  \E s1, s2 \in DOMAIN servers :
    /\ s1 \in FirstContactRows /\ s2 \notin FirstContactRows
    /\ servers[s1].deployment_count = 1
    /\ servers[s2].deployment_count = 0
    /\ servers[s2].last_seen > servers[s2].first_seen

\* C26: under a configuration with auto_restart on, a run that deleted or
\* wrote a live file and returned success, no external call failing, has
\* issued a restart of the consumer, and the restart succeeded; a run whose
\* only change is the removal of live files (the bundle's category
\* directory exists and holds no *.xml file) is such a run.
C26_EveryChangeActivated ==
  \A p \in Procs :
    (/\ Ended(p) /\ result[p] = "true" /\ mutated[p]
     /\ config.auto_restart /\ faults[p] = {})
    => restarts[p] # <<>> /\ restarts[p][Len(restarts[p])]

\* C27: within one run, a step changes a live directory only after
\* backup_current has returned and the fetch has succeeded; a restart is
\* issued only after deploy_files has ended (returned, or raised on the way
\* to rollback); and a success record is written only after deploy_files
\* has returned and restart_wazuh has returned success or was not called
\* because no file was copied.
C27_StepOrdering ==
  [][/\ live' # live
          => \E p \in Procs :
               Running(p) /\ {"backup_current", "fetch"} \subseteq passed[p]
     /\ \A p \in Procs :
          (run'[p] = run[p] /\ restarts'[p] # restarts[p])
          => "deploy_files" \in passed[p] \/ error[p] \in DeployErrors
     /\ (Len(records') > Len(records) /\ records'[Len(records')].success)
          => \E p \in Procs :
               /\ run[p] = records'[Len(records')].run
               /\ "deploy_files" \in passed[p]
               /\ \/ "restart_wazuh" \in passed[p]
                  \/ rule_count[p] = 0 /\ decoder_count[p] = 0]_vars

\* a run that made its backup, fetched, replaced live files, restarted the
\* consumer and then wrote its success record
C27_Witness ==
  \E p \in Procs :
    /\ Ended(p) /\ result[p] = "true" /\ mutated[p]
    /\ backup[p].exists /\ restarts[p] = <<TRUE>>
    /\ passed[p] = {"backup_current", "fetch", "deploy_files", "restart_wazuh"}
    /\ \E i \in RecordsOf(p) : records[i].success /\ records[i].rules >= 1

\* C28: every external call returning, a run of pull_and_deploy that has
\* started reaches its return; within one run rollback is called at most
\* once and the consumer is restarted at most twice; and once rollback has
\* returned, whatever the outcome of its restart, the run goes on to its
\* record and its return only.
C28_BoundedRecovery ==
  /\ \A p \in Procs : Running(p) ~> Ended(p)
  /\ [](\A p \in Procs :
          /\ rollbacks[p] <= 1
          /\ Len(restarts[p]) <= 2
          /\ rb_result[p] # "none"
               => pc[p] \in {"return_false", "log_exception", "done"})

\* a run that restarted the consumer twice, the second time in its one
\* rollback, where the restart failed, and then returned
C28_Witness ==
  \E p \in Procs :
    /\ Ended(p) /\ rollbacks[p] = 1
    /\ Len(restarts[p]) = 2 /\ ~restarts[p][2]
    /\ rb_result[p] = "true"

\* C29: when rollback of the repository puller has returned True, the live
\* rules directory and the live decoders directory hold the files and
\* contents they held when the run started; a run that went on in force
\* mode after a backup that failed part-way, and a run on a node where a
\* live directory did not exist, are such runs.
C29_RollbackTrueMeansRestored ==
  \A p \in Procs :
    (kind[p] = "repo" /\ rb_result[p] = "true") => SameFiles(live, pre[p])

\* C30: in a run with force false that has deleted or written a live file,
\* the run's backup directory exists and holds, for each live category
\* directory that existed when the run started, a copy with the files and
\* contents the directory held then; under every configuration,
\* create_backup off included.
C30_NoUnforcedChangeWithoutBackup ==
  \A p \in Procs :
    (~force[p] /\ mutated[p])
    => /\ backup[p].exists
       /\ \A c \in Categories :
            pre[p][c].exists => backup[p][c] = pre[p][c]

\* C31: after a log_deployment call with success true has returned, the
\* servers row of the call's server_id has last_success equal to the call's
\* timestamp, whether the row was there before the call or the call created
\* it on first contact.
C31_SuccessSetsLastSuccess ==
  (reply.op = "log_deployment" /\ reply.args[3] = 1)
  => LET sid == reply.args[1]
         row == deployments[reply.result[1]]
     IN  /\ sid \in DOMAIN servers
         /\ servers[sid].last_success = <<row.timestamp>>

\* C32: once revoke_api_key(k) has returned True, verify_api_key(k) and
\* verify_api_key(k, admin=True) return False after every later sequence of
\* register_server, revoke_api_key and log_deployment calls: no operation
\* makes a revoked key active again.
C32_RevocationPermanent ==
  \A k \in revoked :
    /\ ~VerifyApiKey(k, FALSE)
    /\ ~VerifyApiKey(k, TRUE)
    /\ (reply.op = "verify_api_key" /\ reply.args[1] = k)
         => reply.result = <<FALSE>>

\* a key was revoked; later a server was registered and a deployment was
\* logged; the key was then verified and found invalid
C32_Witness ==
  \E k \in revoked, sid \in DOMAIN servers :
    /\ api_keys[k].revoked_at # NULL
    /\ servers[sid].first_seen > api_keys[k].revoked_at[1]
    /\ Len(deployments) > 0
    /\ deployments[1].timestamp > api_keys[k].revoked_at[1]
    /\ reply.op = "verify_api_key"
    /\ reply.args[1] = k
    /\ reply.result = <<FALSE>>

\* the key has a row in api_keys with active = 1
ActiveKey(k) == k \in DOMAIN api_keys /\ api_keys[k].active = 1
\* the key has an active row with is_admin = 1
ActiveAdminKey(k) == ActiveKey(k) /\ api_keys[k].is_admin = 1
\* the response of a rejected request: status 403 and a fixed text
Forbidden(detail) == [status_code |-> 403, detail |-> detail]

\* C33: a request to /rules/latest or /deploy whose bearer key is not an
\* active key is rejected with status 403 and leaves tables deployments and
\* servers as they were; a request to /admin/stats or /admin/servers whose
\* key is active but not an admin key is rejected with status 403, and the
\* response holds the fixed text alone, no statistics and no server rows.
C33_RejectedRequestsWriteNothing ==
  [][/\ \A ep \in {"/rules/latest", "/deploy"} :
          (Returned(ep) /\ ~ActiveKey(reply'.args[1]))
          => /\ reply'.result = Forbidden("Invalid API key")
             /\ UNCHANGED <<deployments, servers>>
     /\ \A ep \in {"/admin/stats", "/admin/servers"} :
          (/\ Returned(ep)
           /\ ActiveKey(reply'.args[1])
           /\ ~ActiveAdminKey(reply'.args[1]))
          => reply'.result = Forbidden("Admin access required")
    ]_vars

\* the ledger holds a deployment and the active key of a node; a request to
\* /deploy with a key that was revoked has just been rejected
C33_Witness ==
  /\ reply.op = "/deploy"
  /\ reply.args[1] \in revoked
  /\ reply.result = Forbidden("Invalid API key")
  /\ Len(deployments) > 0
  /\ \E k \in BearerKeys : ActiveKey(k) /\ ~ActiveAdminKey(k)

\* table t2 is table t with one row more, under key k
OneRowAdded(t, t2, k) ==
  /\ k \notin DOMAIN t
  /\ DOMAIN t2 = DOMAIN t \cup {k}
  /\ \A x \in DOMAIN t : t2[x] = t[x]

\* C34: register_server returns False exactly when the server_id or the
\* API key already exists, and then neither table servers nor table
\* api_keys has changed; when it returns True, exactly one servers row, of
\* that server_id, and one api_keys row, active and of that server_id, were
\* added.
C34_RegisterAllOrNothing ==
  [][Returned("register_server")
     => LET sid == reply'.args[1]
            key == reply'.args[2]
        IN  IF reply'.result = <<FALSE>>
              THEN /\ sid \in DOMAIN servers \/ key \in DOMAIN api_keys
                   /\ UNCHANGED <<servers, api_keys>>
              ELSE /\ OneRowAdded(servers, servers', sid)
                   /\ OneRowAdded(api_keys, api_keys', key)
                   /\ api_keys'[key].server_id = sid
                   /\ api_keys'[key].active = 1
    ]_vars

\* register_server has just returned False for a server_id that has no row,
\* with a key another server holds: the new server has no row
C34_Witness ==
  /\ reply.op = "register_server"
  /\ reply.result = <<FALSE>>
  /\ reply.args[1] \notin DOMAIN servers
  /\ reply.args[2] \in DOMAIN api_keys
  /\ api_keys[reply.args[2]].server_id \in DOMAIN servers

\* C35: when no deployments row falls inside the requested window,
\* get_deployment_stats returns total_deployments = 0, successful = 0,
\* failed = 0 and success_rate = 0, each a number, and the per-server and
\* per-day lists are empty.
C35_EmptyWindowZeros ==
  (reply.op = "get_deployment_stats" /\ reply.result.total_deployments = 0)
  => LET r == reply.result IN
     /\ r.successful = <<0>>
     /\ r.failed = <<0>>
     /\ r.success_rate[1] = 0
     /\ DOMAIN r.by_server = {}
     /\ DOMAIN r.daily = {}

====
